---------------------------- MODULE Spec2Model ----------------------------
(***************************************************************************)
(* Model of gossip's SIP header and URI values (headers.go): their         *)
(* rendering to strings and the equality of URIs.                          *)
(*                                                                         *)
(* Go strings are TLA+ strings (TLC treats them as sequences of            *)
(* characters, so Len, \o, SubSeq, Head and Tail work on them).  A *string *)
(* or *uint16 is an optional value: Nil or Some(x).  A map[string]*string  *)
(* is a record [isNil, kv]: the nil map or a function from its keys.  The  *)
(* order in which `range` visits a map is not fixed by Go: every loop over *)
(* a map takes the order as a nondeterministic choice of the action.       *)
(***************************************************************************)
EXTENDS Integers, Sequences, FiniteSets, TLC

VARIABLES
    pc,     \* "call": the inputs are built, the operation has not run; "done"
    args,   \* the operation and the values it is applied to
    ret     \* what the operation returned (NoRet before it ran)

vars == <<pc, args, ret>>

NoRet == [none |-> TRUE]

----------------------------------------------------------------------------
(* Optional values (Go pointers) and maps.                                 *)

Nil == [nil |-> TRUE]
Some(x) == [nil |-> FALSE, v |-> x]

NilMap == [isNil |-> TRUE, kv |-> <<>>]
MkMap(f) == [isNil |-> FALSE, kv |-> f]

\* The keys of a map; the nil map has none.
Keys(m) == DOMAIN m.kv

\* len(m): 0 for the nil map.
MapLen(m) == Cardinality(Keys(m))

\* The orders in which a range loop may visit the keys of m.
RangeOrders(m) ==
    {o \in [1..MapLen(m) -> Keys(m)] : \A i, j \in 1..MapLen(m) : o[i] = o[j] => i = j}

----------------------------------------------------------------------------
(* Strings.                                                                *)

CharAt(s, i) == SubSeq(s, i, i)

\* strings.ContainsAny(s, chars): chars is given as a set of characters.
ContainsAny(s, chars) == \E i \in 1..Len(s) : CharAt(s, i) \in chars

\* The whitespace of RFC 3261's ABNF: space, tab, CR, LF.
ABNF_WS == {" ", "\t", "\r", "\n"}

Digit(d) == CharAt("0123456789", d + 1)

\* strconv.Itoa / Sprintf("%d") of a non-negative integer.
RECURSIVE Itoa(_)
Itoa(n) == IF n < 10 THEN Digit(n) ELSE Itoa(n \div 10) \o Digit(n % 10)

\* strings.Join(elems, sep)
RECURSIVE Join(_, _)
Join(elems, sep) ==
    IF Len(elems) = 0 THEN ""
    ELSE IF Len(elems) = 1 THEN elems[1]
    ELSE elems[1] \o sep \o Join(Tail(elems), sep)

----------------------------------------------------------------------------
(* Pointer comparisons.                                                    *)

\* strPtrEq(a, b): both nil, or both set and the strings equal.
strPtrEq(a, b) == IF a.nil \/ b.nil THEN a.nil = b.nil ELSE a.v = b.v

\* uint16PtrEq(a, b): both nil, or both set and the numbers equal.
uint16PtrEq(a, b) == IF a.nil \/ b.nil THEN a.nil = b.nil ELSE a.v = b.v

----------------------------------------------------------------------------
(* paramsEqual                                                             *)

\* The loop of paramsEqual over the keys of a in the order `order`, from
\* its i-th iteration on.
RECURSIVE paramsEqualLoop(_, _, _, _)
paramsEqualLoop(a, b, order, i) ==
    IF i > Len(order) THEN TRUE
    ELSE LET key == order[i] IN
         IF key \notin Keys(b) THEN FALSE
         ELSE IF ~strPtrEq(a.kv[key], b.kv[key]) THEN FALSE
         ELSE paramsEqualLoop(a, b, order, i + 1)

\* paramsEqual without the comparison of the lengths.
paramsEqualNoLen(a, b, order) == paramsEqualLoop(a, b, order, 1)

paramsEqual(a, b, order) ==
    IF MapLen(a) # MapLen(b) THEN FALSE
    ELSE paramsEqualLoop(a, b, order, 1)

----------------------------------------------------------------------------
(* ParamsToString                                                          *)

\* WriteParam writing '=' after the key of an entry without a value too.
WriteParamAlwaysEq(buffer, key, value) ==
    IF value.nil THEN buffer \o key \o "="
    ELSE IF ContainsAny(value.v, ABNF_WS)
         THEN buffer \o key \o "=\"" \o value.v \o "\""
         ELSE buffer \o key \o "=" \o value.v

\* One iteration's writes for the entry key -> value, after the start or
\* separator character.
WriteParam(buffer, key, value) ==
    IF value.nil THEN buffer \o key
    ELSE IF ContainsAny(value.v, ABNF_WS)
         THEN buffer \o key \o "=\"" \o value.v \o "\""
         ELSE buffer \o key \o "=" \o value.v

RECURSIVE ParamsToStringLoop(_, _, _, _, _, _)
ParamsToStringLoop(params, order, i, buffer, start, sep) ==
    IF i > Len(order) THEN buffer
    ELSE LET first == (i = 1)
             b1 == IF first THEN buffer \o start ELSE buffer \o sep
         IN ParamsToStringLoop(params, order, i + 1,
                               WriteParam(b1, order[i], params.kv[order[i]]),
                               start, sep)

\* ParamsToString writing the separator after every entry.
ParamsToStringTrailing(params, order, start, sep) ==
    IF Len(order) = 0 THEN ""
    ELSE ParamsToStringLoop(params, order, 1, "", start, sep) \o sep

ParamsToString(params, order, start, sep) ==
    ParamsToStringLoop(params, order, 1, "", start, sep)

----------------------------------------------------------------------------
(* Parameter collections: the inputs and the two operations on them.       *)

MaxParams == 2

\* The maps over `keys` with values in `vals` and at most n entries, and
\* the nil map.
Maps(keys, vals, n) ==
    {NilMap} \cup
    {MkMap(f) : f \in UNION {[S -> vals] : S \in {T \in SUBSET keys : Cardinality(T) <= n}}}

EqKeys == {"a", "b", "c"}
EqVals == {Nil, Some(""), Some("v")}
EqMaps == Maps(EqKeys, EqVals, MaxParams)

RenderKeys == {"k", "", "a=b", "x;y"}
RenderVals == {Nil, Some(""), Some("v"), Some("a b"), Some("\t"), Some("\r\n"),
               Some("\"v\""), Some("v;w"), Some("v&w"), Some("x=y")}
RenderMaps == Maps(RenderKeys, RenderVals, MaxParams)
Starts == {";", "?"}
Seps == {";", "&"}

ParamsInit ==
    /\ pc = "call"
    /\ ret = NoRet
    /\ \/ args \in [fn : {"paramsEqual"}, a : EqMaps, b : EqMaps]
       \/ args \in [fn : {"ParamsToString"}, params : RenderMaps,
                    start : Starts, sep : Seps]

CallParamsEqual ==
    /\ pc = "call"
    /\ args.fn = "paramsEqual"
    /\ \E order \in RangeOrders(args.a) :
          ret' = [val |-> paramsEqual(args.a, args.b, order), order |-> order]
    /\ pc' = "done"
    /\ UNCHANGED args

CallParamsToString ==
    /\ pc = "call"
    /\ args.fn = "ParamsToString"
    /\ \E order \in RangeOrders(args.params) :
          ret' = [val |-> ParamsToString(args.params, order, args.start, args.sep),
                  order |-> order]
    /\ pc' = "done"
    /\ UNCHANGED args

ParamsNext == CallParamsEqual \/ CallParamsToString

SpecParams == ParamsInit /\ [][ParamsNext]_vars

Returned(fn) == pc = "done" /\ args.fn = fn

----------------------------------------------------------------------------
(* Claims about parameter collections.                                     *)

\* Same key set and, per key, both values absent or both present and equal.
SameEntries(a, b) ==
    /\ Keys(a) = Keys(b)
    /\ \A k \in Keys(a) :
          \/ a.kv[k].nil /\ b.kv[k].nil
          \/ ~a.kv[k].nil /\ ~b.kv[k].nil /\ a.kv[k].v = b.kv[k].v

\* C1: paramsEqual(A, B) is true exactly when A and B have the same key set
\* and, per key, the same value or absence (the nil map counting as empty),
\* whatever the order in which the loop visited A's entries.
C1_ParamsEqualIffSameEntries ==
    Returned("paramsEqual") => (ret.val = SameEntries(args.a, args.b))

\* Two equal collections of two entries, one of them without a value,
\* visited in the order b, a.
C1_Witness ==
    /\ Returned("paramsEqual")
    /\ ret.val
    /\ ret.order = <<"b", "a">>
    /\ args.a.kv["a"].nil
    /\ ~args.a.kv["b"].nil

\* The entry key -> value as spec section 4.1 writes it.
EntryText(key, value) ==
    IF value.nil THEN key
    ELSE IF \E i \in 1..Len(value.v) : CharAt(value.v, i) \in {" ", "\t", "\r", "\n"}
         THEN key \o "=" \o "\"" \o value.v \o "\""
         ELSE key \o "=" \o value.v

\* C5: ParamsToString returns "" for a collection without entries, and
\* otherwise the start character once, then one rendered entry per key with
\* the separator between consecutive entries and none after the last.
C5_ParamsToStringFormat ==
    Returned("ParamsToString") =>
        LET P == args.params
            n == MapLen(P)
            texts == [i \in 1..n |-> EntryText(ret.order[i], P.kv[ret.order[i]])]
        IN /\ Len(ret.order) = n
           /\ {ret.order[i] : i \in 1..n} = Keys(P)
           /\ n = 0 => ret.val = ""
           /\ n > 0 => ret.val = args.start \o Join(texts, args.sep)

\* A rendering of two entries, one quoted, one bare key, start and separator
\* different.
C5_Witness ==
    /\ Returned("ParamsToString")
    /\ args.start = "?"
    /\ args.sep = "&"
    /\ ret.val = "?k=\"a b\"&x;y=v"

\* Where the character c first occurs in s (0 when it does not).
IndexOf(s, c) ==
    IF \E i \in 1..Len(s) : CharAt(s, i) = c
    THEN CHOOSE i \in 1..Len(s) :
            CharAt(s, i) = c /\ \A j \in 1..(i - 1) : CharAt(s, j) # c
    ELSE 0

\* s cut at every occurrence of the character c.
RECURSIVE Split(_, _)
Split(s, c) ==
    LET i == IndexOf(s, c) IN
    IF i = 0 THEN <<s>>
    ELSE <<SubSeq(s, 1, i - 1)>> \o Split(SubSeq(s, i + 1, Len(s)), c)

\* One re-split entry cut at its first '=': <<key, value or absence>>.
ParseEntry(e) ==
    LET i == IndexOf(e, "=") IN
    IF i = 0 THEN <<e, Nil>>
    ELSE <<SubSeq(e, 1, i - 1), Some(SubSeq(e, i + 1, Len(e)))>>

\* The rendered entries of s: the start character removed, the rest cut at
\* the separator.  The empty string has no entries.
Pieces(s, sep) == IF s = "" THEN <<>> ELSE Split(Tail(s), sep)

Resplit(s, sep) == {ParseEntry(Pieces(s, sep)[i]) : i \in 1..Len(Pieces(s, sep))}

\* A value without the double quotes that enclose it, if any.
Unquote(value) ==
    IF value.nil THEN value
    ELSE IF Len(value.v) >= 2 /\ Head(value.v) = "\"" /\ CharAt(value.v, Len(value.v)) = "\""
         THEN Some(SubSeq(value.v, 2, Len(value.v) - 1))
         ELSE value

EntriesOf(P) == {<<k, P.kv[k]>> : k \in Keys(P)}

\* No key holds the separator or '=', no value the separator or '"'.
Escaped(P, sep) ==
    \A k \in Keys(P) :
        /\ ~ContainsAny(k, {sep, "="})
        /\ P.kv[k].nil \/ ~ContainsAny(P.kv[k].v, {sep, "\""})

\* The re-split entries, each value without its enclosing double quotes.
ResplitUnquoted(s, sep) == {<<e[1], Unquote(e[2])>> : e \in Resplit(s, sep)}

\* C4 as stated: for every collection, the rendering re-split on the
\* separator and on '=' gives back exactly the collection's entries (read
\* either way: the values as they stand between the separators, or with
\* their enclosing double quotes removed).
C4_ResplitEveryCollection ==
    Returned("ParamsToString") =>
        /\ Len(Pieces(ret.val, args.sep)) = MapLen(args.params)
        /\ \/ Resplit(ret.val, args.sep) = EntriesOf(args.params)
           \/ ResplitUnquoted(ret.val, args.sep) = EntriesOf(args.params)

\* C4, amended: when no key holds the separator or '=' and no value holds
\* the separator or a double quote, the rendering re-split on the separator
\* and on the first '=', with the double quotes enclosing a value removed,
\* gives back exactly the collection's entries: as many pieces as entries,
\* each key with its value or its absence.
C4_ResplitEscaped ==
    Returned("ParamsToString") /\ Escaped(args.params, args.sep) =>
        /\ Len(Pieces(ret.val, args.sep)) = MapLen(args.params)
        /\ ResplitUnquoted(ret.val, args.sep) = EntriesOf(args.params)

\* A collection of two entries, a whitespace value and an absent one, with
\* an empty key, rendered and re-split.
C4_Witness ==
    /\ Returned("ParamsToString")
    /\ Escaped(args.params, args.sep)
    /\ EntriesOf(args.params) = {<<"k", Some("a b")>>, <<"", Nil>>}
    /\ ret.order = <<"", "k">>

----------------------------------------------------------------------------
(* URIs: the SIP/SIPS URI and the wildcard URI.                            *)

WildcardUri == [kind |-> "wildcard"]

SipUri(enc, user, password, host, port, uriParams, headers) ==
    [kind |-> "sip", IsEncrypted |-> enc, User |-> user, Password |-> password,
     Host |-> host, Port |-> port, UriParams |-> uriParams, Headers |-> headers]

SipUriIsWildcard(uri) == FALSE

WildcardUriIsWildcard(uri) == TRUE

IsWildcard(uri) ==
    IF uri.kind = "wildcard" THEN WildcardUriIsWildcard(uri) ELSE SipUriIsWildcard(uri)

\* WildcardUri.Equals answering true for every URI.
WildcardUriEqualsAny(other) == TRUE

WildcardUriEquals(other) == IF other.kind = "wildcard" THEN TRUE ELSE FALSE

\* SipUri.Equals without the comparison of the ports.
SipUriEqualsNoPort(uri, otherUri, ordP, ordH) ==
    IF otherUri.kind # "sip" THEN FALSE
    ELSE /\ uri.IsEncrypted = otherUri.IsEncrypted
         /\ strPtrEq(uri.User, otherUri.User)
         /\ strPtrEq(uri.Password, otherUri.Password)
         /\ uri.Host = otherUri.Host
         /\ paramsEqual(uri.UriParams, otherUri.UriParams, ordP)
         /\ paramsEqual(uri.Headers, otherUri.Headers, ordH)

\* SipUri.Equals comparing the URI parameters only from uri's side.
SipUriEqualsOneSided(uri, otherUri, ordP, ordH) ==
    IF otherUri.kind # "sip" THEN FALSE
    ELSE /\ uri.IsEncrypted = otherUri.IsEncrypted
         /\ strPtrEq(uri.User, otherUri.User)
         /\ strPtrEq(uri.Password, otherUri.Password)
         /\ uri.Host = otherUri.Host
         /\ uint16PtrEq(uri.Port, otherUri.Port)
         /\ paramsEqualNoLen(uri.UriParams, otherUri.UriParams, ordP)
         /\ paramsEqual(uri.Headers, otherUri.Headers, ordH)

\* ordP and ordH: the orders in which the two paramsEqual loops visit
\* uri.UriParams and uri.Headers.
SipUriEquals(uri, otherUri, ordP, ordH) ==
    IF otherUri.kind # "sip" THEN FALSE
    ELSE LET other == otherUri
             result == /\ uri.IsEncrypted = other.IsEncrypted
                       /\ strPtrEq(uri.User, other.User)
                       /\ strPtrEq(uri.Password, other.Password)
                       /\ uri.Host = other.Host
                       /\ uint16PtrEq(uri.Port, other.Port)
         IN IF ~result THEN FALSE
            ELSE IF ~paramsEqual(uri.UriParams, other.UriParams, ordP) THEN FALSE
            ELSE IF ~paramsEqual(uri.Headers, other.Headers, ordH) THEN FALSE
            ELSE TRUE

\* uri.Equals(other) through the Uri interface.
Equals(uri, other, ordP, ordH) ==
    IF uri.kind = "wildcard" THEN WildcardUriEquals(other)
    ELSE SipUriEquals(uri, other, ordP, ordH)

\* The loop orders a call of uri.Equals may take.
ParamOrders(uri) == IF uri.kind = "sip" THEN RangeOrders(uri.UriParams) ELSE {<<>>}
HeaderOrders(uri) == IF uri.kind = "sip" THEN RangeOrders(uri.Headers) ELSE {<<>>}

\* SipUri.String writing the password whether or not there is a user.
SipUriStringLoosePassword(uri, ordP, ordH) ==
    (IF uri.IsEncrypted THEN "sips:" ELSE "sip:")
    \o (IF ~uri.User.nil THEN uri.User.v ELSE "")
    \o (IF ~uri.Password.nil THEN ":" \o uri.Password.v ELSE "")
    \o (IF ~uri.User.nil THEN "@" ELSE "")
    \o uri.Host
    \o (IF ~uri.Port.nil THEN ":" \o Itoa(uri.Port.v) ELSE "")
    \o ParamsToString(uri.UriParams, ordP, ";", ";")
    \o ParamsToString(uri.Headers, ordH, "?", "&")

\* SipUri.String without the port.
SipUriStringNoPort(uri, ordP, ordH) ==
    (IF uri.IsEncrypted THEN "sips:" ELSE "sip:")
    \o (IF ~uri.User.nil
        THEN uri.User.v \o (IF ~uri.Password.nil THEN ":" \o uri.Password.v ELSE "") \o "@"
        ELSE "")
    \o uri.Host
    \o ParamsToString(uri.UriParams, ordP, ";", ";")
    \o ParamsToString(uri.Headers, ordH, "?", "&")

\* ordP and ordH: the orders in which the two ParamsToString loops visit
\* uri.UriParams and uri.Headers.
SipUriString(uri, ordP, ordH) ==
    LET b0 == ""
        b1 == IF uri.IsEncrypted THEN (b0 \o "sips") \o ":" ELSE (b0 \o "sip") \o ":"
        b2 == IF ~uri.User.nil
              THEN LET u1 == b1 \o uri.User.v
                       u2 == IF ~uri.Password.nil
                             THEN (u1 \o ":") \o uri.Password.v
                             ELSE u1
                   IN u2 \o "@"
              ELSE b1
        b3 == b2 \o uri.Host
        b4 == IF ~uri.Port.nil THEN (b3 \o ":") \o Itoa(uri.Port.v) ELSE b3
        b5 == b4 \o ParamsToString(uri.UriParams, ordP, ";", ";")
        b6 == b5 \o ParamsToString(uri.Headers, ordH, "?", "&")
    IN b6

WildcardUriString(uri) == "*"

\* uri.String() through the Uri interface.
UriString(uri, ordP, ordH) ==
    IF uri.kind = "wildcard" THEN WildcardUriString(uri)
    ELSE SipUriString(uri, ordP, ordH)

----------------------------------------------------------------------------
(* Equality of URIs: the inputs and the operations.                        *)

EqUsers == {Nil, Some("a")}
EqPasswords == {Nil, Some("")}
EqHosts == {"b.com", "B.com"}
EqPorts == {Nil, Some(5060), Some(5061)}
EqUriParams == Maps({"k", "j"}, {Nil, Some("v")}, 2)
EqHeaders == {NilMap, MkMap([x \in {"h"} |-> Some("v")])}

EqUris ==
    {WildcardUri} \cup
    {SipUri(e, u, pw, h, pt, ps, hs) :
        e \in BOOLEAN, u \in EqUsers, pw \in EqPasswords, h \in EqHosts,
        pt \in EqPorts, ps \in EqUriParams, hs \in EqHeaders}

EqualsInit ==
    /\ pc = "call"
    /\ ret = NoRet
    /\ \/ args \in [fn : {"Equals"}, a : EqUris, b : EqUris]
       \/ args \in [fn : {"IsWildcard"}, a : EqUris]

CallEquals ==
    /\ pc = "call"
    /\ args.fn = "Equals"
    /\ \E ordP \in ParamOrders(args.a), ordH \in HeaderOrders(args.a) :
          ret' = [val |-> Equals(args.a, args.b, ordP, ordH)]
    /\ pc' = "done"
    /\ UNCHANGED args

CallIsWildcard ==
    /\ pc = "call"
    /\ args.fn = "IsWildcard"
    /\ ret' = [val |-> IsWildcard(args.a)]
    /\ pc' = "done"
    /\ UNCHANGED args

EqualsNext == CallEquals \/ CallIsWildcard

SpecEquals == EqualsInit /\ [][EqualsNext]_vars

----------------------------------------------------------------------------
(* Claims about the equality of URIs.                                      *)

\* Both absent, or both present and the same.
SameOptional(x, y) == (x.nil /\ y.nil) \/ (~x.nil /\ ~y.nil /\ x.v = y.v)

C3_WildcardEqualsOnlyWildcard ==
    /\ Returned("Equals") /\ args.a.kind = "wildcard" =>
          ret.val = (args.b.kind = "wildcard")
    /\ Returned("Equals") /\ args.a.kind = "sip" /\ args.b.kind = "wildcard" =>
          ret.val = FALSE
    /\ Returned("IsWildcard") => ret.val = (args.a.kind = "wildcard")

\* The wildcard URI compared with a SIP URI: not equal.
C3_Witness ==
    /\ Returned("Equals")
    /\ args.a = WildcardUri
    /\ args.b.kind = "sip"
    /\ ret.val = FALSE

\* C9: Equals is an equivalence relation on the SIP/SIPS URIs and the
\* wildcard URI: a.Equals(a), a.Equals(b) = b.Equals(a), and a.Equals(b) with
\* b.Equals(c) gives a.Equals(c), whatever the loop orders of the calls.
C9_EqualsIsEquivalence ==
    Returned("Equals") =>
        LET a == args.a
            b == args.b
        IN /\ \A ordP \in ParamOrders(a), ordH \in HeaderOrders(a) :
                 Equals(a, a, ordP, ordH)
           /\ \A ordP \in ParamOrders(b), ordH \in HeaderOrders(b) :
                 Equals(b, a, ordP, ordH) = ret.val
           /\ ret.val =>
                 \A c \in EqUris :
                    \A ordP \in ParamOrders(b), ordH \in HeaderOrders(b) :
                       Equals(b, c, ordP, ordH) =>
                          \A ordQ \in ParamOrders(a), ordI \in HeaderOrders(a) :
                             Equals(a, c, ordQ, ordI)

\* Collections of different sizes, one mapping k to an absent value and the
\* other without k: not equal, in this direction as in the other.
C9_Witness ==
    /\ Returned("Equals")
    /\ args.a.kind = "sip"
    /\ args.b.kind = "sip"
    /\ args.a.UriParams = MkMap(<<>>)
    /\ args.b.UriParams = MkMap([x \in {"k"} |-> Nil])
    /\ args.a.Headers = args.b.Headers
    /\ args.a.Port = args.b.Port
    /\ args.a.Host = args.b.Host
    /\ args.a.User = args.b.User
    /\ args.a.Password = args.b.Password
    /\ args.a.IsEncrypted = args.b.IsEncrypted
    /\ ret.val = FALSE

----------------------------------------------------------------------------
(* Rendering of URIs: the inputs and the operation.                        *)

StrUsers == {Nil, Some(""), Some("alice")}
StrPasswords == {Nil, Some("hunter2")}
StrHosts == {"atlanta.com", "10.0.0.1"}
StrPorts == {Nil, Some(0), Some(9), Some(5060), Some(65535)}
StrUriParams == Maps({"transport", "lr"}, {Nil, Some("udp"), Some("a b")}, 2)
StrHeaders == Maps({"subject", "to"}, {Some("x"), Some("a b")}, 2)

StrUris ==
    {WildcardUri} \cup
    {SipUri(e, u, pw, h, pt, ps, hs) :
        e \in BOOLEAN, u \in StrUsers, pw \in StrPasswords, h \in StrHosts,
        pt \in StrPorts, ps \in StrUriParams, hs \in StrHeaders}

StringInit ==
    /\ pc = "call"
    /\ ret = NoRet
    /\ args \in [fn : {"String"}, a : StrUris]

CallString ==
    /\ pc = "call"
    /\ args.fn = "String"
    /\ \E ordP \in ParamOrders(args.a), ordH \in HeaderOrders(args.a) :
          ret' = [val |-> UriString(args.a, ordP, ordH), ordP |-> ordP, ordH |-> ordH]
    /\ pc' = "done"
    /\ UNCHANGED args

StringNext == CallString

SpecString == StringInit /\ [][StringNext]_vars

\* 10 to the power k.
RECURSIVE Pow10(_)
Pow10(k) == IF k = 0 THEN 1 ELSE 10 * Pow10(k - 1)

\* The decimal numeral of n < 10^5: its digits from the most significant,
\* without leading zeros.
Decimal(n) ==
    LET len == CHOOSE l \in 1..5 : (l = 1 \/ n >= Pow10(l - 1)) /\ n < Pow10(l)
        digit(i) == CharAt("0123456789", ((n \div Pow10(len - i)) % 10) + 1)
    IN Join([i \in 1..len |-> digit(i)], "")

\* C6: the rendering of a SIP/SIPS URI is the scheme and ':', the user with
\* the optional ':' password and '@' only if the user is present, the host,
\* ':' and the decimal port if present, the URI parameters after ';' and the
\* header parameters after '?', separated by '&'.
C6_SipUriStringIsConcatenation ==
    Returned("String") /\ args.a.kind = "sip" =>
        LET u == args.a
            scheme == IF u.IsEncrypted THEN "sips:" ELSE "sip:"
            userinfo == IF u.User.nil THEN ""
                        ELSE IF u.Password.nil THEN u.User.v \o "@"
                        ELSE u.User.v \o ":" \o u.Password.v \o "@"
            port == IF u.Port.nil THEN "" ELSE ":" \o Decimal(u.Port.v)
        IN ret.val = scheme \o userinfo \o u.Host \o port
                        \o ParamsToString(u.UriParams, ret.ordP, ";", ";")
                        \o ParamsToString(u.Headers, ret.ordH, "?", "&")

\* A SIPS URI with a password and no user, a port, a parameter and two
\* header parameters: the password and the '@' are not written.
C6_Witness ==
    /\ Returned("String")
    /\ args.a.kind = "sip"
    /\ args.a.User = Nil
    /\ args.a.Password = Some("hunter2")
    /\ ret.val = "sips:atlanta.com:5060;lr?to=\"a b\"&subject=x"

----------------------------------------------------------------------------
(* Equality against rendering: two URIs compared and both rendered, the    *)
(* loops over their collections visiting the keys in one common order.     *)

CmpUsers == {Nil, Some("a"), Some("a:b")}
CmpPasswords == {Nil, Some("b")}
CmpHosts == {"h", "h:5"}
CmpPorts == {Nil, Some(5)}
CmpKeys == {"k", "k=v"}
CmpUriParams == Maps(CmpKeys, {Nil}, 2) \cup Maps({"k"}, {Some("v")}, 1)
CmpHeaderKeys == {"s"}
CmpHeaders == {NilMap, MkMap([x \in CmpHeaderKeys |-> Some("x")])}

CmpUris ==
    {WildcardUri} \cup
    {SipUri(e, u, pw, h, pt, ps, hs) :
        e \in BOOLEAN, u \in CmpUsers, pw \in CmpPasswords, h \in CmpHosts,
        pt \in CmpPorts, ps \in CmpUriParams, hs \in CmpHeaders}

\* The total orders of a set of keys.
KeyOrders(S) ==
    {o \in [1..Cardinality(S) -> S] : \A i, j \in 1..Cardinality(S) : o[i] = o[j] => i = j}

\* The order in which a loop following korder visits the keys of m.
Induced(korder, m) == SelectSeq(korder, LAMBDA k : k \in Keys(m))

\* uri rendered with its loops following the key orders kP and kH.
StringUnder(uri, kP, kH) ==
    IF uri.kind = "wildcard" THEN UriString(uri, <<>>, <<>>)
    ELSE UriString(uri, Induced(kP, uri.UriParams), Induced(kH, uri.Headers))

CompareInit ==
    /\ pc = "call"
    /\ ret = NoRet
    /\ args \in [fn : {"EqualsAndString"}, a : CmpUris, b : CmpUris]

CallEqualsAndString ==
    /\ pc = "call"
    /\ args.fn = "EqualsAndString"
    /\ \E ordP \in ParamOrders(args.a), ordH \in HeaderOrders(args.a),
          kP \in KeyOrders(CmpKeys), kH \in KeyOrders(CmpHeaderKeys) :
          ret' = [eq |-> Equals(args.a, args.b, ordP, ordH),
                  sa |-> StringUnder(args.a, kP, kH),
                  sb |-> StringUnder(args.b, kP, kH)]
    /\ pc' = "done"
    /\ UNCHANGED args

CompareNext == CallEqualsAndString

SpecCompare == CompareInit /\ [][CompareNext]_vars

Delimiters == {":", "@", ";", "?", "&", "=", "\""}

NoDelimiter(x) == x.nil \/ ~ContainsAny(x.v, Delimiters)

NoDelimiters(m) ==
    \A k \in Keys(m) : ~ContainsAny(k, Delimiters) /\ NoDelimiter(m.kv[k])

\* A SIP/SIPS URI whose password comes with a user and whose strings hold
\* no delimiter of the URI syntax.
WellFormed(u) ==
    /\ u.kind = "sip"
    /\ u.User.nil => u.Password.nil
    /\ NoDelimiter(u.User)
    /\ NoDelimiter(u.Password)
    /\ ~ContainsAny(u.Host, Delimiters)
    /\ NoDelimiters(u.UriParams)
    /\ NoDelimiters(u.Headers)

\* C10 as stated: equal URIs render alike under a common key order, and two
\* SIP/SIPS URIs that render alike are equal, whatever their fields.
C10_EqualIffSameString ==
    Returned("EqualsAndString") =>
        /\ ret.eq => ret.sa = ret.sb
        /\ args.a.kind = "sip" /\ args.b.kind = "sip" /\ ret.sa = ret.sb => ret.eq

\* C10, amended: equal URIs render alike under a common key order; and two
\* SIP/SIPS URIs that render alike are equal provided each carries a
\* password only with a user and no user, password, host, parameter or
\* header name or value of theirs holds one of : @ ; ? & = ".
C10_EqualIffSameStringWellFormed ==
    Returned("EqualsAndString") =>
        /\ ret.eq => ret.sa = ret.sb
        /\ WellFormed(args.a) /\ WellFormed(args.b) /\ ret.sa = ret.sb => ret.eq

\* Two well-formed URIs with different collections of the same rendering
\* (the nil map and the empty map), rendered alike and equal.
C10_Witness ==
    /\ Returned("EqualsAndString")
    /\ WellFormed(args.a)
    /\ WellFormed(args.b)
    /\ args.a # args.b
    /\ ~args.a.User.nil
    /\ ~args.a.Password.nil
    /\ args.a.UriParams = NilMap
    /\ args.b.UriParams = MkMap(<<>>)
    /\ MapLen(args.a.Headers) = 1
    /\ ret.sa = ret.sb
    /\ ret.eq

----------------------------------------------------------------------------
(* Headers: Contact and Via.                                               *)

ContactHeader(displayName, uri, params) ==
    [displayName |-> displayName, uri |-> uri, params |-> params]

\* ContactHeader.String putting every URI, the wildcard too, in angle
\* brackets.
ContactHeaderStringBracketed(contact, ordP, ordH, ord) ==
    "Contact: "
    \o (IF ~contact.displayName.nil THEN "\"" \o contact.displayName.v \o "\" " ELSE "")
    \o "<" \o UriString(contact.uri, ordP, ordH) \o ">"
    \o ParamsToString(contact.params, ord, ";", ";")

\* ordP, ordH: the loop orders of the URI's String; ord: the loop order
\* over the header's own parameters.
ContactHeaderString(contact, ordP, ordH, ord) ==
    LET b1 == "" \o "Contact: "
        b2 == IF ~contact.displayName.nil
              THEN b1 \o ("\"" \o contact.displayName.v \o "\" ")
              ELSE b1
        b3 == IF contact.uri.kind = "wildcard"
              THEN b2 \o "*"
              ELSE b2 \o ("<" \o UriString(contact.uri, ordP, ordH) \o ">")
        b4 == b3 \o ParamsToString(contact.params, ord, ";", ";")
    IN b4

ViaHop(protocolName, protocolVersion, transport, host, port, params) ==
    [protocolName |-> protocolName, protocolVersion |-> protocolVersion,
     transport |-> transport, host |-> host, port |-> port, params |-> params]

\* ord: the loop order over the hop's parameters.
ViaHopString(entry, ord) ==
    LET b1 == "" \o (entry.protocolName \o "/" \o entry.protocolVersion \o "/"
                     \o entry.transport \o " " \o entry.host)
        b2 == IF ~entry.port.nil THEN b1 \o (":" \o Itoa(entry.port.v)) ELSE b1
        b3 == b2 \o ParamsToString(entry.params, ord, ";", ";")
    IN b3

\* The loop of ViaHeader.String from index idx (counted from 0) on; ords[i]
\* is the loop order over the parameters of the i-th hop.
RECURSIVE ViaHeaderLoop(_, _, _, _)
ViaHeaderLoop(via, ords, idx, buffer) ==
    IF idx >= Len(via) THEN buffer
    ELSE LET b1 == buffer \o ViaHopString(via[idx + 1], ords[idx + 1])
             b2 == IF idx # Len(via) - 1 THEN b1 \o ", " ELSE b1
         IN ViaHeaderLoop(via, ords, idx + 1, b2)

\* ViaHeader.String with the hops in reverse.
ViaHeaderStringReversed(via, ords) ==
    LET n == Len(via)
    IN ViaHeaderLoop([i \in 1..n |-> via[n + 1 - i]],
                     [i \in 1..n |-> ords[n + 1 - i]], 0, "Via: ")

ViaHeaderString(via, ords) == ViaHeaderLoop(via, ords, 0, "" \o "Via: ")

MaxHops == 2

Alice == SipUri(FALSE, Some("alice"), Nil, "atlanta.com", Nil, NilMap, NilMap)

ContactUris ==
    {WildcardUri, Alice,
     SipUri(TRUE, Nil, Nil, "atlanta.com", Some(5061),
            MkMap([x \in {"lr"} |-> Nil]), MkMap([x \in {"to"} |-> Some("a b")]))}
DisplayNames == {Nil, Some(""), Some("Alice"), Some("Alice B")}
ContactParams == Maps({"q", "expires"}, {Nil, Some("1")}, MaxParams)
Contacts ==
    {ContactHeader(d, u, ps) : d \in DisplayNames, u \in ContactUris, ps \in ContactParams}

BigBox == ViaHop("SIP", "2.0", "UDP", "bigbox.example.com", Nil, NilMap)
Pc33 == ViaHop("SIP", "2.0", "UDP", "pc33.example.com", Some(5060), NilMap)

ViaParams ==
    {NilMap, MkMap([x \in {"branch"} |-> Some("z9")]),
     MkMap([x \in {"branch", "rport"} |-> IF x = "rport" THEN Nil ELSE Some("z9")])}
ViaHops ==
    {ViaHop("SIP", "2.0", t, h, pt, ps) :
        t \in {"UDP", "TCP"}, h \in {"bigbox.example.com", "pc33.example.com"},
        pt \in {Nil, Some(5060)}, ps \in ViaParams}
ViaHeaders == UNION {[1..n -> ViaHops] : n \in 0..MaxHops}

\* The loop orders of the calls of ViaHop.String, one per hop.
ViaOrders(via) ==
    {ords \in [1..Len(via) -> UNION {RangeOrders(ps) : ps \in ViaParams}] :
        \A i \in 1..Len(via) : ords[i] \in RangeOrders(via[i].params)}

HeadersInit ==
    /\ pc = "call"
    /\ ret = NoRet
    /\ \/ args \in [fn : {"ContactHeader.String"}, contact : Contacts]
       \/ args \in [fn : {"ViaHeader.String"}, via : ViaHeaders]

CallContactHeaderString ==
    /\ pc = "call"
    /\ args.fn = "ContactHeader.String"
    /\ \E ordP \in ParamOrders(args.contact.uri), ordH \in HeaderOrders(args.contact.uri),
          ord \in RangeOrders(args.contact.params) :
          ret' = [val |-> ContactHeaderString(args.contact, ordP, ordH, ord),
                  ordP |-> ordP, ordH |-> ordH, ord |-> ord]
    /\ pc' = "done"
    /\ UNCHANGED args

CallViaHeaderString ==
    /\ pc = "call"
    /\ args.fn = "ViaHeader.String"
    /\ \E ords \in ViaOrders(args.via) :
          ret' = [val |-> ViaHeaderString(args.via, ords), ords |-> ords]
    /\ pc' = "done"
    /\ UNCHANGED args

HeadersNext == CallContactHeaderString \/ CallViaHeaderString

SpecHeaders == HeadersInit /\ [][HeadersNext]_vars

----------------------------------------------------------------------------
(* Claims about headers.                                                   *)

\* C7: a Contact header renders as "Contact: ", the display name in double
\* quotes and a space if present, the URI (a bare * for the wildcard, in
\* angle brackets otherwise), then its parameters after ';'; Alice's
\* contact renders as Contact: "Alice" <sip:alice@atlanta.com>.
C7_ContactHeaderString ==
    Returned("ContactHeader.String") =>
        LET c == args.contact
            name == IF c.displayName.nil THEN "" ELSE "\"" \o c.displayName.v \o "\" "
            uri == IF c.uri.kind = "wildcard" THEN "*"
                   ELSE "<" \o SipUriString(c.uri, ret.ordP, ret.ordH) \o ">"
        IN /\ ret.val = "Contact: " \o name \o uri
                           \o ParamsToString(c.params, ret.ord, ";", ";")
           /\ c = ContactHeader(Some("Alice"), Alice, NilMap) =>
                 ret.val = "Contact: \"Alice\" <sip:alice@atlanta.com>"
           /\ c.uri.kind = "wildcard" => ~ContainsAny(ret.val, {"<", ">"})

\* The wildcard contact with a display name and two parameters.
C7_Witness ==
    /\ Returned("ContactHeader.String")
    /\ ret.val = "Contact: \"Alice B\" *;q=1;expires"

\* The hop as spec section 4.6 writes it, its parameters in the order ord.
HopText(hop, ord) ==
    hop.protocolName \o "/" \o hop.protocolVersion \o "/" \o hop.transport
    \o " " \o hop.host
    \o (IF hop.port.nil THEN "" ELSE ":" \o Decimal(hop.port.v))
    \o ParamsToString(hop.params, ord, ";", ";")

\* C8: a Via header of n >= 1 hops renders as "Via: " and the hops in
\* sequence order with ", " between consecutive hops and nothing after the
\* last; the hops bigbox.example.com and pc33.example.com:5060 render as
\* Via: SIP/2.0/UDP bigbox.example.com, SIP/2.0/UDP pc33.example.com:5060.
C8_ViaHeaderString ==
    Returned("ViaHeader.String") /\ Len(args.via) >= 1 =>
        /\ ret.val = "Via: " \o Join([i \in 1..Len(args.via) |->
                                          HopText(args.via[i], ret.ords[i])], ", ")
        /\ args.via = <<BigBox, Pc33>> =>
              ret.val = "Via: SIP/2.0/UDP bigbox.example.com, SIP/2.0/UDP pc33.example.com:5060"

\* Two different hops, the first with a port and two parameters.
C8_Witness ==
    /\ Returned("ViaHeader.String")
    /\ ret.val = "Via: SIP/2.0/TCP pc33.example.com:5060;rport;branch=z9, SIP/2.0/UDP bigbox.example.com"

=============================================================================
